---- MODULE Spec2Model ----
(***************************************************************************)
(* Video wallpaper engine of superpaper (macOS):                           *)
(*   src/superpaper/video_engine.py            VideoEngine                 *)
(*   src/superpaper/video_wallpaper_window.py  SPVideoWallpaperWindow,     *)
(*                                             SPVideoWallpaperManager     *)
(*   src/superpaper/video_daemon.py            the helper process          *)
(*                                                                         *)
(* Every public operation is one atomic action taken from pc = "idle"; it  *)
(* leaves in op/req/result/trace/retired/failed what the operation did, in *)
(* the order the code did it, and moves to pc = "returned".  Return is the *)
(* caller dropping those observations.  The application drives the engine  *)
(* from one thread, so these operations never interleave; SpecRegistry     *)
(* alone runs kill_all_daemons statement by statement in two threads.      *)
(*                                                                         *)
(* The "agent log" statements append to a debug file; the file is taken to *)
(* be writable, except inside the try block of launch_daemon, where a      *)
(* failing statement before or after Popen is one of the spawn outcomes.   *)
(***************************************************************************)
EXTENDS Integers, Sequences, FiniteSets, TLC

VARIABLES
    windows,      \* SPVideoWallpaperManager.windows: the session
    gen,          \* allocation stamp of the last session build (object identity)
    retired,      \* instances cleaned up by the last operation (resource fields)
    failed,       \* instances whose setup failed in the last operation
    cache,        \* still images on disk under static_cache_path
    files,        \* video files on disk
    screens,      \* NSScreen.screens(): frames in enumeration order
    settingsVolume, \* NSUserDefaults "wallpapervolume", in tenths
    daemon_pids,  \* VideoEngine.daemon_pids
    procs,        \* helper processes spawned so far: pid -> status
    helpers,      \* inside each helper process: its player's volume, and the
                  \* volume-changed notification on its way to it
    daemon,       \* one helper process seen from the inside: its window, its
                  \* player and its end-of-media observer
    ctx,          \* the threads inside kill_all_daemons: where each one is
    pc,           \* "idle" | "returned"
    op,           \* the operation that returned last
    req,          \* its arguments
    result,       \* what it returned or logged
    trace,        \* its side effects, in program order
    probe         \* a direct cleanup() call: the instance before and after

vars == <<windows, gen, retired, failed, cache, files, screens, settingsVolume,
          daemon_pids, procs, helpers, daemon, ctx, pc, op, req, result, trace, probe>>

(***************************************************************************)
(* Bounds of the model.                                                    *)
(***************************************************************************)
MaxLen == 2      \* longest list of video paths / display ids in a request
MaxPid == 3      \* most helper processes ever spawned
MaxScreens == 2  \* most screens in the enumerations the canvas is computed over

(***************************************************************************)
(* Program constants.                                                      *)
(***************************************************************************)
default_volume == 0

(***************************************************************************)
(* Values.                                                                 *)
(***************************************************************************)
Range(s) == {s[i] : i \in 1..Len(s)}
SeqsUpTo(S, n) == UNION {[1..k -> S] : k \in 0..n}
Min2(a, b) == IF a <= b THEN a ELSE b
Max2(a, b) == IF a >= b THEN a ELSE b

\* A path is its directory, the base name of its last component and the suffix.
PathA  == [dir |-> "/v", base |-> "a", ext |-> "mp4"]
PathA2 == [dir |-> "/w", base |-> "a", ext |-> "mp4"]
PathB  == [dir |-> "/v", base |-> "b", ext |-> "mp4"]
VideoPaths == {PathA, PathA2, PathB}
NoPath == [dir |-> "", base |-> "", ext |-> ""]
CacheDir == "~/Library/Caches/Superpaper/wallpapers"

\* Display indices a request may name; NSScreen.screens() has one screen here,
\* so index 1 is out of range.
DisplayIds == {0, 1}
OneScreen == << [x |-> 0, y |-> 0, w |-> 1920, h |-> 1080] >>

\* Where an exception can leave setupWithVideo_...: nowhere ("none"), after the
\* window was allocated and before a player exists ("window"), or at play() with
\* the window on screen and the player attached ("play").
Stages == {"none", "window", "play"}

\* crop_rect: None, or (x, y, w, h) as exact fractions <<numerator, denominator>>.
NoCrop == [set |-> FALSE, x |-> <<0, 1>>, y |-> <<0, 1>>, w |-> <<1, 1>>, h |-> <<1, 1>>]

NoPlayer == [state |-> "None", video |-> NoPath, volume |-> 0]

\* The frame of a layer: x, y, w, h as exact fractions.
NoFrame == [x |-> <<0, 1>>, y |-> <<0, 1>>, w |-> <<0, 1>>, h |-> <<0, 1>>]

\* SPVideoWallpaperWindow.init; layer_gravity, layer_frame and masks_to_bounds
\* are what setup gives the player layer and the content view.
NewInstance(id) ==
    [id |-> id, target_screen |-> 0, crop_info |-> NoCrop,
     window |-> "None", player |-> NoPlayer, player_layer |-> FALSE, looper |-> FALSE,
     layer_gravity |-> "None", layer_frame |-> NoFrame, masks_to_bounds |-> FALSE]

\* The fields cleanup reads and writes.
Res(s) == [id |-> s.id, window |-> s.window, player |-> s.player,
           player_layer |-> s.player_layer, looper |-> s.looper]

Ev(e, id) == [ev |-> e, id |-> id]

(***************************************************************************)
(* SPVideoWallpaperWindow                                                  *)
(***************************************************************************)
Abs(n) == IF n < 0 THEN -n ELSE n

RECURSIVE gcd(_, _)
gcd(a, b) == IF b = 0 THEN a ELSE gcd(b, a % b)

\* The quotient q in lowest terms (the value of a division is one number,
\* however its operands were written).
lowest(q) ==
    IF q[1] = 0 THEN <<0, 1>>
    ELSE <<q[1] \div gcd(Abs(q[1]), Abs(q[2])), q[2] \div gcd(Abs(q[1]), Abs(q[2]))>>

\* canvas_width = window_width / width_norm if width_norm > 0 else window_width
layerExtent(size, norm) ==
    IF norm[1] * norm[2] > 0 THEN lowest(<<size * norm[2], norm[1]>>) ELSE <<size, 1>>

\* offset_x = -x_norm * canvas_width
layerOffset(norm, extent) == lowest(<<-(norm[1] * extent[1]), norm[2] * extent[2]>>)

\* A layer that is always given the bounds of the window.
layerFrame_window_bounds(crop_rect, frame) ==
    [x |-> <<0, 1>>, y |-> <<0, 1>>, w |-> <<frame.w, 1>>, h |-> <<frame.h, 1>>]

\* The frame setup gives the player layer in a window on a screen with this
\* frame: the bounds of the window without a crop rectangle, else the canvas
\* size computed back from the crop rectangle, shifted by the offset.
layerFrame(crop_rect, frame) ==
    IF ~crop_rect.set
    THEN [x |-> <<0, 1>>, y |-> <<0, 1>>, w |-> <<frame.w, 1>>, h |-> <<frame.h, 1>>]
    ELSE [x |-> layerOffset(crop_rect.x, layerExtent(frame.w, crop_rect.w)),
          y |-> layerOffset(crop_rect.y, layerExtent(frame.h, crop_rect.h)),
          w |-> layerExtent(frame.w, crop_rect.w),
          h |-> layerExtent(frame.h, crop_rect.h)]

\* A setup that does not look whether the video is on disk.
setupWithVideo_unchecked(inst, video_path, screen, frame, volume, crop_rect, fault, fs) ==
    [ok |-> TRUE,
     inst |-> [inst EXCEPT !.target_screen = screen,
                           !.window = "shown",
                           !.player = [state |-> "playing", video |-> video_path,
                                       volume |-> volume],
                           !.looper = TRUE,
                           !.player_layer = TRUE,
                           !.crop_info = crop_rect],
     trace |-> <<Ev("alloc", inst.id), Ev("show", inst.id), Ev("play", inst.id)>>]

\* setupWithVideo_screen_volume_scaleMode_cropRect_: [ok, inst, trace].  screen
\* is the index of the NSScreen in the enumeration and frame its frame();
\* scale_mode is an argument the method never reads: the gravity of the layer
\* is AVLayerVideoGravityResizeAspectFill whatever was asked for.
setupWithVideo(inst, video_path, screen, frame, volume, crop_rect, fault, fs) ==
    IF video_path \notin fs
    THEN [ok |-> FALSE, inst |-> inst, trace |-> <<>>]
    ELSE IF fault = "window"
    THEN [ok |-> FALSE,
          inst |-> [inst EXCEPT !.target_screen = screen, !.window = "created"],
          trace |-> <<Ev("alloc", inst.id)>>]
    ELSE LET built == [inst EXCEPT !.target_screen = screen,
                                   !.window = "shown",
                                   !.player = [state |-> "ready", video |-> video_path,
                                               volume |-> volume],
                                   !.looper = TRUE,
                                   !.player_layer = TRUE,
                                   !.layer_gravity = "ResizeAspectFill",
                                   !.crop_info = crop_rect,
                                   !.layer_frame = layerFrame(crop_rect, frame),
                                   !.masks_to_bounds = crop_rect.set]
         IN IF fault = "play"
            THEN [ok |-> FALSE, inst |-> built,
                  trace |-> <<Ev("alloc", inst.id), Ev("show", inst.id)>>]
            ELSE [ok |-> TRUE,
                  inst |-> [built EXCEPT !.player.state = "playing"],
                  trace |-> <<Ev("alloc", inst.id), Ev("show", inst.id),
                              Ev("play", inst.id)>>]

\* createWithVideo_screen_volume_scaleMode_cropRect_: the instance is returned
\* only when setup succeeded.
createWithVideo(id, video_path, screen, frame, volume, crop_rect, fault, fs) ==
    setupWithVideo(NewInstance(id), video_path, screen, frame, volume, crop_rect, fault,
                   fs)

\* A cleanup without its three guards: it pauses, detaches and closes whatever
\* the instance holds.
cleanupTraceUnguarded(s) ==
    <<Ev("pause", s.id), Ev("detach", s.id), Ev("close", s.id)>>

\* What cleanup does to the outside world, in order.
cleanupTrace(s) ==
    (IF s.player.state # "None" THEN <<Ev("pause", s.id)>> ELSE <<>>)
    \o (IF s.player_layer /\ s.window # "None" THEN <<Ev("detach", s.id)>> ELSE <<>>)
    \o (IF s.window # "None" THEN <<Ev("close", s.id)>> ELSE <<>>)

\* A cleanup that closes the window and forgets to release the player.
cleanup_keeps_player(s) ==
    [s EXCEPT !.window = "None", !.looper = FALSE, !.player_layer = FALSE]

\* SPVideoWallpaperWindow.cleanup: the instance afterwards.
cleanup(s) ==
    [s EXCEPT !.window = "None", !.looper = FALSE, !.player = NoPlayer,
              !.player_layer = FALSE]

(***************************************************************************)
(* SPVideoWallpaperManager                                                 *)
(***************************************************************************)
RECURSIVE cleanupAll(_)
cleanupAll(ws) ==
    IF ws = <<>> THEN [retired |-> <<>>, trace |-> <<>>]
    ELSE LET rest == cleanupAll(Tail(ws))
         IN [retired |-> <<Res(cleanup(Head(ws)))>> \o rest.retired,
             trace   |-> cleanupTrace(Head(ws)) \o rest.trace]

\* A stopAllWallpapers that only replaces the list and cleans nothing up.
stopAllWallpapersNoCleanup(ws) ==
    [windows |-> <<>>, retired |-> <<>>, trace |-> <<>>]

\* stopAllWallpapers: every window is cleaned up, then the list is replaced.
stopAllWallpapers(ws) ==
    LET c == cleanupAll(ws)
    IN [windows |-> <<>>, retired |-> c.retired, trace |-> c.trace]

\* The exception injected into the k-th create; none beyond the chosen plan.
faultAt(faults, k) == IF k \in DOMAIN faults THEN faults[k] ELSE "none"

\* One turn of the loop both start methods end with: a created window is
\* appended to the session and counted, a failed create is logged.
loopStep(c, rest) ==
    IF c.ok
    THEN [windows |-> <<c.inst>> \o rest.windows,
          failed  |-> rest.failed,
          trace   |-> c.trace \o rest.trace,
          success_count |-> rest.success_count + 1]
    ELSE [windows |-> rest.windows,
          failed  |-> <<Res(c.inst)>> \o rest.failed,
          trace   |-> c.trace \o <<Ev("create_failed", c.inst.id)>> \o rest.trace,
          success_count |-> rest.success_count]

\* A loop that gives up at the first create that fails.
RECURSIVE createLoopStopAtFailure(_, _, _, _, _, _)
createLoopStopAtFailure(atts, faults, volume, g, fs, k) ==
    IF k > Len(atts)
    THEN [windows |-> <<>>, failed |-> <<>>, trace |-> <<>>, success_count |-> 0]
    ELSE loopStep(createWithVideo(<<g, k>>, atts[k].video, atts[k].screen, atts[k].frame,
                                  volume, atts[k].crop, faultAt(faults, k), fs),
                  IF createWithVideo(<<g, k>>, atts[k].video, atts[k].screen,
                                     atts[k].frame, volume, atts[k].crop,
                                     faultAt(faults, k), fs).ok
                  THEN createLoopStopAtFailure(atts, faults, volume, g, fs, k + 1)
                  ELSE [windows |-> <<>>, failed |-> <<>>, trace |-> <<>>,
                        success_count |-> 0])

\* The loop itself: one create per attempt, in order, whatever the earlier
\* creates returned.
RECURSIVE createLoop(_, _, _, _, _, _)
createLoop(atts, faults, volume, g, fs, k) ==
    IF k > Len(atts)
    THEN [windows |-> <<>>, failed |-> <<>>, trace |-> <<>>, success_count |-> 0]
    ELSE loopStep(createWithVideo(<<g, k>>, atts[k].video, atts[k].screen, atts[k].frame,
                                  volume, atts[k].crop, faultAt(faults, k), fs),
                  createLoop(atts, faults, volume, g, fs, k + 1))

\* return success_count > 0
loopResult(b) ==
    [windows |-> b.windows, failed |-> b.failed, trace |-> b.trace,
     ret |-> IF b.success_count > 0 THEN "true" ELSE "false"]

\* zip(video_paths, display_ids) with the screen lookup of the individual mode.
individualAttempts(video_paths, display_ids, scr, main) ==
    [k \in 1..Min2(Len(video_paths), Len(display_ids)) |->
        [video  |-> video_paths[k],
         screen |-> IF display_ids[k] >= Len(scr) THEN main ELSE display_ids[k] + 1,
         frame  |-> scr[IF display_ids[k] >= Len(scr) THEN main ELSE display_ids[k] + 1],
         crop   |-> NoCrop]]

\* A lookup that gives a display beyond the enumeration its last screen.
RECURSIVE spannedScreens_clamped(_, _)
spannedScreens_clamped(display_ids, scr) ==
    IF display_ids = <<>> THEN <<>>
    ELSE IF Head(display_ids) >= Len(scr)
         THEN <<Len(scr)>> \o spannedScreens_clamped(Tail(display_ids), scr)
         ELSE <<Head(display_ids) + 1>> \o spannedScreens_clamped(Tail(display_ids), scr)

\* A lookup that gives a display without a screen the first screen.
RECURSIVE spannedScreens_fallback(_, _)
spannedScreens_fallback(display_ids, scr) ==
    IF display_ids = <<>> THEN <<>>
    ELSE IF Head(display_ids) >= Len(scr)
         THEN <<1>> \o spannedScreens_fallback(Tail(display_ids), scr)
         ELSE <<Head(display_ids) + 1>> \o spannedScreens_fallback(Tail(display_ids), scr)

\* The displays of a spanning request that resolve to a screen, in order.
RECURSIVE spannedScreens(_, _)
spannedScreens(display_ids, scr) ==
    IF display_ids = <<>> THEN <<>>
    ELSE IF Head(display_ids) >= Len(scr)
         THEN spannedScreens(Tail(display_ids), scr)
         ELSE <<Head(display_ids) + 1>> \o spannedScreens(Tail(display_ids), scr)

\* An extendCanvas that takes the maxima over the origins alone.
extendCanvas_origins(c, f) ==
    [min_x |-> Min2(c.min_x, f.x), min_y |-> Min2(c.min_y, f.y),
     max_x |-> Max2(c.max_x, f.x), max_y |-> Max2(c.max_y, f.y)]

\* min/max of the running canvas with one more frame.
extendCanvas(c, f) ==
    [min_x |-> Min2(c.min_x, f.x), min_y |-> Min2(c.min_y, f.y),
     max_x |-> Max2(c.max_x, f.x + f.w), max_y |-> Max2(c.max_y, f.y + f.h)]

frameCanvas(f) ==
    [min_x |-> f.x, min_y |-> f.y, max_x |-> f.x + f.w, max_y |-> f.y + f.h]

\* A canvas that is the frame of the first resolved screen.
canvasOfHead(idx, scr) ==
    [min_x |-> scr[Head(idx)].x, min_y |-> scr[Head(idx)].y,
     max_x |-> scr[Head(idx)].x + scr[Head(idx)].w,
     max_y |-> scr[Head(idx)].y + scr[Head(idx)].h]

\* The bounding canvas accumulated over the resolved screens.
RECURSIVE canvasOf(_, _)
canvasOf(idx, scr) ==
    IF Len(idx) = 1 THEN frameCanvas(scr[Head(idx)])
    ELSE extendCanvas(canvasOf(Tail(idx), scr), scr[Head(idx)])

canvas_width(c)  == c.max_x - c.min_x
canvas_height(c) == c.max_y - c.min_y

\* A crop rectangle whose origin is not taken relative to the canvas.
cropRect_unshifted(f, c) ==
    [set |-> TRUE,
     x |-> <<f.x, c.max_x - c.min_x>>,
     y |-> <<f.y, c.max_y - c.min_y>>,
     w |-> <<f.w, c.max_x - c.min_x>>,
     h |-> <<f.h, c.max_y - c.min_y>>]

cropRect(f, c) ==
    [set |-> TRUE,
     x |-> <<f.x - c.min_x, canvas_width(c)>>,
     y |-> <<f.y - c.min_y, canvas_height(c)>>,
     w |-> <<f.w, canvas_width(c)>>,
     h |-> <<f.h, canvas_height(c)>>]

spannedAttempts(video_path, idx, scr, c) ==
    [k \in 1..Len(idx) |->
        [video |-> video_path, screen |-> idx[k], frame |-> scr[idx[k]],
         crop |-> cropRect(scr[idx[k]], c)]]

\* An is_spanning that does not ask for more than one path.
is_spanning_one_distinct(video_paths) == Cardinality(Range(video_paths)) = 1

is_spanning(video_paths) == Cardinality(Range(video_paths)) = 1 /\ Len(video_paths) > 1

NothingBuilt(ret) == [windows |-> <<>>, failed |-> <<>>, trace |-> <<>>, ret |-> ret]

\* __start_spanned_wallpaper once the screens idx are resolved and the canvas c
\* is known: the division by the canvas extent raises on a canvas without one.
spanOver(video_path, idx, c, volume, scr, faults, g, fs) ==
    IF canvas_width(c) = 0 \/ canvas_height(c) = 0
    THEN NothingBuilt("raised")
    ELSE loopResult(createLoop(spannedAttempts(video_path, idx, scr, c), faults, volume,
                               g, fs, 1))

\* __start_spanned_wallpaper
start_spanned_wallpaper(video_path, display_ids, volume, scr, faults, g, fs) ==
    IF spannedScreens(display_ids, scr) = <<>>
    THEN NothingBuilt("false")
    ELSE spanOver(video_path, spannedScreens(display_ids, scr),
                  canvasOf(spannedScreens(display_ids, scr), scr),
                  volume, scr, faults, g, fs)

\* __start_individual_wallpapers
start_individual_wallpapers(video_paths, display_ids, volume, scr, main, faults, g, fs) ==
    loopResult(createLoop(individualAttempts(video_paths, display_ids, scr, main),
                          faults, volume, g, fs, 1))

\* What startWallpaperWithPaths leaves: the teardown s, then the build b.
managerResult(s, b) ==
    [windows |-> s.windows \o b.windows,
     retired |-> s.retired,
     failed  |-> b.failed,
     trace   |-> s.trace \o b.trace,
     ret     |-> b.ret]

\* startWallpaperWithPaths_displayIDs_volume_scaleMode_ on the session ws.
startWallpaperWithPaths(ws, video_paths, display_ids, volume, scr, main, faults, g, fs) ==
    managerResult(
        stopAllWallpapers(ws),
        IF is_spanning(video_paths)
        THEN start_spanned_wallpaper(video_paths[1], display_ids, volume, scr, faults, g, fs)
        ELSE start_individual_wallpapers(video_paths, display_ids, volume, scr, main,
                                         faults, g, fs))

\* The canvas __start_spanned_wallpaper logs: none when no display resolved.
loggedCanvas(display_ids, scr) ==
    IF spannedScreens(display_ids, scr) = <<>> THEN {}
    ELSE {canvasOf(spannedScreens(display_ids, scr), scr)}

\* How many creates the request leads to: the domain of the fault choice.
attemptCount(video_paths, display_ids, scr) ==
    IF is_spanning(video_paths)
    THEN Len(spannedScreens(display_ids, scr))
    ELSE Min2(Len(video_paths), Len(display_ids))

(***************************************************************************)
(* VideoEngine                                                             *)
(***************************************************************************)
\* Path(video_path).stem
Stem(p) == p.base
\* An image kept next to its video instead of in the cache directory.
StaticPath_beside_video(p) == [dir |-> p.dir, base |-> p.base, ext |-> "png"]

\* os.path.join(static_cache_path, f"{video_name}.png")
StaticPath(p) == [dir |-> CacheDir, base |-> Stem(p), ext |-> "png"]

\* How generate_static_frame ends: with the image written ("ok"), or at the
\* asset whose duration is 0, at the image that cannot be extracted, at the
\* destination that cannot be created, at the finalize that fails, or with an
\* exception.
GenOutcomes == {"ok", "asset", "extract", "destination", "finalize", "exception"}

\* generate_static_frame: True only when CGImageDestinationFinalize succeeded;
\* every other way out returns False and the code itself writes nothing.
generate_static_frame(outcome) == outcome = "ok"

\* A get_or_generate_static_frame that never looks at the cache.
get_or_generate_static_frame_always(video_path, c, genOk) ==
    IF video_path \in genOk
    THEN [cache |-> c \cup {[dir |-> CacheDir, base |-> video_path.base, ext |-> "png"]},
          ret |-> [dir |-> CacheDir, base |-> video_path.base, ext |-> "png"],
          trace |-> <<Ev("generate", video_path)>>]
    ELSE [cache |-> c, ret |-> NoPath, trace |-> <<Ev("generate", video_path)>>]

\* A get_or_generate_static_frame whose failed generation leaves the file.
get_or_generate_static_frame_keeps_partial(video_path, c, genOk) ==
    IF [dir |-> CacheDir, base |-> video_path.base, ext |-> "png"] \in c
    THEN [cache |-> c, ret |-> [dir |-> CacheDir, base |-> video_path.base, ext |-> "png"],
          trace |-> <<Ev("cached", video_path)>>]
    ELSE [cache |-> c \cup {[dir |-> CacheDir, base |-> video_path.base, ext |-> "png"]},
          ret |-> IF video_path \in genOk
                  THEN [dir |-> CacheDir, base |-> video_path.base, ext |-> "png"]
                  ELSE NoPath,
          trace |-> <<Ev("generate", video_path)>>]

\* get_or_generate_static_frame; genOk: the videos a frame can be extracted from.
get_or_generate_static_frame(video_path, c, genOk) ==
    IF StaticPath(video_path) \in c
    THEN [cache |-> c, ret |-> StaticPath(video_path),
          trace |-> <<Ev("cached", video_path)>>]
    ELSE IF video_path \in genOk
    THEN [cache |-> c \cup {StaticPath(video_path)}, ret |-> StaticPath(video_path),
          trace |-> <<Ev("generate", video_path)>>]
    ELSE [cache |-> c, ret |-> NoPath, trace |-> <<Ev("generate", video_path)>>]

\* One turn of the loop of start_video_wallpaper: the frame g of this video,
\* then the rest of the list.
frameStep(g, rest) ==
    [cache |-> rest.cache, trace |-> g.trace \o rest.trace, missing |-> rest.missing]

\* A loop that notes a path that is not on disk and goes on to the next one.
RECURSIVE frameLoop_goes_on(_, _, _, _)
frameLoop_goes_on(video_paths, c, genOk, fs) ==
    IF video_paths = <<>> THEN [cache |-> c, trace |-> <<>>, missing |-> FALSE]
    ELSE IF Head(video_paths) \notin fs
    THEN [frameLoop_goes_on(Tail(video_paths), c, genOk, fs) EXCEPT !.missing = TRUE]
    ELSE frameStep(get_or_generate_static_frame(Head(video_paths), c, genOk),
                   frameLoop_goes_on(Tail(video_paths),
                             get_or_generate_static_frame(Head(video_paths), c, genOk).cache,
                             genOk, fs))

\* The loop of start_video_wallpaper over video_paths: it stops at the first
\* path that is not on disk.
RECURSIVE frameLoop(_, _, _, _)
frameLoop(video_paths, c, genOk, fs) ==
    IF video_paths = <<>> THEN [cache |-> c, trace |-> <<>>, missing |-> FALSE]
    ELSE IF Head(video_paths) \notin fs
    THEN [cache |-> c, trace |-> <<>>, missing |-> TRUE]
    ELSE frameStep(get_or_generate_static_frame(Head(video_paths), c, genOk),
                   frameLoop(Tail(video_paths),
                             get_or_generate_static_frame(Head(video_paths), c, genOk).cache,
                             genOk, fs))

\* defaults.floatForKey_("wallpapervolume") or self.default_volume
effectiveVolume(v) == IF v = 0 THEN default_volume ELSE v

\* stop_video_wallpapers
stop_video_wallpapers(ws) == stopAllWallpapers(ws)

\* start_video_wallpaper returning at a video that is not on disk: after the
\* teardown s and the still frames f made so far.
abortedStart(s, f) ==
    [windows |-> s.windows, retired |-> s.retired, failed |-> <<>>,
     cache |-> f.cache, trace |-> s.trace \o f.trace,
     result |-> "video_not_found", built |-> FALSE]

\* start_video_wallpaper running to its end: teardown s, still frames f, and
\* what the manager m made of the request.
finishedStart(s, f, m) ==
    [windows |-> m.windows, retired |-> s.retired \o m.retired,
     failed |-> m.failed, cache |-> f.cache,
     trace |-> s.trace \o f.trace \o m.trace,
     result |-> IF m.ret = "true" THEN "started"
                ELSE IF m.ret = "false" THEN "failed" ELSE "raised",
     built |-> TRUE]

\* start_video_wallpaper after the length check: teardown, still frames, build.
start_validated(ws, video_paths, display_ids, c, v, scr, main, faults, genOk, g, fs) ==
    IF frameLoop(video_paths, c, genOk, fs).missing
    THEN abortedStart(stop_video_wallpapers(ws), frameLoop(video_paths, c, genOk, fs))
    ELSE finishedStart(stop_video_wallpapers(ws),
                       frameLoop(video_paths, c, genOk, fs),
                       startWallpaperWithPaths(stop_video_wallpapers(ws).windows,
                                               video_paths, display_ids,
                                               effectiveVolume(v), scr, main, faults,
                                               g, fs))

\* A start_video_wallpaper that tears the session down before it compares the
\* lengths.
start_stop_first(ws, video_paths, display_ids, c, v, scr, main, faults, genOk, g, fs) ==
    IF Len(video_paths) # Len(display_ids)
    THEN [windows |-> <<>>, retired |-> stopAllWallpapers(ws).retired, failed |-> <<>>,
          cache |-> c, trace |-> stopAllWallpapers(ws).trace, result |-> "mismatch",
          built |-> FALSE]
    ELSE start_validated(ws, video_paths, display_ids, c, v, scr, main, faults, genOk,
                         g, fs)

\* A start_video_wallpaper without the length check.
start_unvalidated(ws, video_paths, display_ids, c, v, scr, main, faults, genOk, g, fs) ==
    start_validated(ws, video_paths, display_ids, c, v, scr, main, faults, genOk, g, fs)

\* start_video_wallpaper on the session ws: what it leaves and what it logs.
start_video_wallpaper(ws, video_paths, display_ids, c, v, scr, main, faults, genOk, g, fs) ==
    IF Len(video_paths) # Len(display_ids)
    THEN [windows |-> ws, retired |-> <<>>, failed |-> <<>>, cache |-> c,
          trace |-> <<>>, result |-> "mismatch", built |-> FALSE]
    ELSE start_validated(ws, video_paths, display_ids, c, v, scr, main, faults, genOk,
                         g, fs)

\* The pids a request can be answered with: 0 stands for None.
NoPid == 0

\* A launch_daemon that spawns without looking for the script.
launch_daemon_unchecked(script_exists, spawn, pid, pids, ps) ==
    IF spawn \in {"ok", "late_error"}
    THEN [ret |-> IF spawn = "ok" THEN pid ELSE NoPid, daemon_pids |-> pids,
          procs |-> ps @@ (pid :> "running"), trace |-> <<Ev("popen", pid)>>]
    ELSE [ret |-> NoPid, daemon_pids |-> pids, procs |-> ps,
          trace |-> IF spawn = "os_error" THEN <<Ev("popen", pid)>> ELSE <<>>]

\* launch_daemon: script_exists is os.path.exists(daemon_script); spawn tells how
\* the try block ends: "ok", "log_error" (the log directory or file cannot be
\* made, before Popen), "os_error" (Popen raises) or "late_error" (a statement
\* after Popen raises, with the child already running).  pid is the pid the OS
\* would give the child.
launch_daemon(script_exists, spawn, pid, pids, ps) ==
    IF ~script_exists
    THEN [ret |-> NoPid, daemon_pids |-> pids, procs |-> ps, trace |-> <<>>]
    ELSE IF spawn = "log_error"
    THEN [ret |-> NoPid, daemon_pids |-> pids, procs |-> ps, trace |-> <<>>]
    ELSE IF spawn = "os_error"
    THEN [ret |-> NoPid, daemon_pids |-> pids, procs |-> ps,
          trace |-> <<Ev("popen", pid)>>]
    ELSE [ret |-> IF spawn = "late_error" THEN NoPid ELSE pid,
          daemon_pids |-> pids,
          procs |-> ps @@ (pid :> "running"),
          trace |-> <<Ev("popen", pid)>>]

KEv(e, id, out) == [ev |-> e, id |-> id, out |-> out]

\* os.kill(pid, SIGTERM): delivered to a process that exists, ProcessLookupError
\* for one that does not, or another OSError when the plan says so.
killOutcome(pid, ps, planned) ==
    IF planned = "error" THEN "error"
    ELSE IF pid \in DOMAIN ps /\ ps[pid] # "exited" THEN "ok"
    ELSE "not_found"

signalled(pid, ps, out) ==
    IF out = "ok" THEN [ps EXCEPT ![pid] = "signalled"] ELSE ps

\* A loop that lets the first failed signal end it.
RECURSIVE killLoopStopAtFailure(_, _, _, _)
killLoopStopAtFailure(pids, ps, plan, k) ==
    IF k > Len(pids) THEN [procs |-> ps, trace |-> <<>>]
    ELSE IF killOutcome(pids[k], ps, plan[k]) # "ok"
    THEN [procs |-> ps,
          trace |-> <<KEv("kill", pids[k], killOutcome(pids[k], ps, plan[k]))>>]
    ELSE LET rest == killLoopStopAtFailure(pids, signalled(pids[k], ps, "ok"), plan, k + 1)
         IN [procs |-> rest.procs,
             trace |-> <<KEv("kill", pids[k], "ok")>> \o rest.trace]

\* The loop of kill_all_daemons over daemon_pids: every exception is caught
\* inside the loop body.
RECURSIVE killLoop(_, _, _, _)
killLoop(pids, ps, plan, k) ==
    IF k > Len(pids) THEN [procs |-> ps, trace |-> <<>>]
    ELSE LET out == killOutcome(pids[k], ps, plan[k])
             rest == killLoop(pids, signalled(pids[k], ps, out), plan, k + 1)
         IN [procs |-> rest.procs,
             trace |-> <<KEv("kill", pids[k], out)>> \o rest.trace]

\* send_terminate_notification: posting may raise; the exception is logged.
send_terminate_notification(posted) ==
    <<KEv("broadcast", NoPid, IF posted THEN "ok" ELSE "failed")>>

\* A kill_all_daemons that forgets only the pids it could signal.
kill_all_daemons_keep_failed(pids, ps, posted, plan) ==
    LET l == killLoop(pids, ps, plan, 1)
    IN [daemon_pids |-> SelectSeq(pids, LAMBDA q : \E i \in 1..Len(l.trace) :
                                     l.trace[i].id = q /\ l.trace[i].out # "ok"),
        procs |-> l.procs,
        trace |-> send_terminate_notification(posted) \o l.trace]

\* kill_all_daemons
kill_all_daemons(pids, ps, posted, plan) ==
    LET l == killLoop(pids, ps, plan, 1)
    IN [daemon_pids |-> <<>>, procs |-> l.procs,
        trace |-> send_terminate_notification(posted) \o l.trace]

(***************************************************************************)
(* The helper process (video_daemon.py) as far as the volume goes.         *)
(***************************************************************************)
\* Volumes the settings hold and the callers pass, in tenths: 0.0, 0.5, 1.0.
Volumes == {0, 5, 10}

\* VideoWallpaperWindow.setupVideoPlayer: the player starts at the volume of
\* the command line; no notification is on its way.
NewHelper(volume) == [volume |-> volume, inbox |-> "none"]

\* main() in every child that ps holds and hs does not yet.
daemonMain(hs, ps, volume) ==
    [p \in DOMAIN ps |-> IF p \in DOMAIN hs THEN hs[p] ELSE NewHelper(volume)]

\* CFNotificationCenterPostNotification of volumeChanged, to all sessions: once
\* posted it is on its way to every helper process that runs; when the post
\* raises, no notification of this update is on its way to anyone.
postVolumeChanged(hs, ps, posted) ==
    [p \in DOMAIN hs |->
        [hs[p] EXCEPT !.inbox = IF posted /\ ps[p] = "running" THEN "pending" ELSE "none"]]

\* The notification arrives at a helper process: setupNotifications registered
\* no observer, so nothing calls updateVolume_ and the player keeps its volume.
notificationArrives(h) == [h EXCEPT !.inbox = "delivered"]

\* An update_volume that posts first and saves the value only once the
\* notification is out.
update_volume_post_first(new_volume, posted, hs, ps) ==
    [settingsVolume |-> IF posted THEN new_volume ELSE default_volume,
     helpers |-> postVolumeChanged(hs, ps, posted),
     trace |-> <<KEv("post_volume", NoPid, IF posted THEN "ok" ELSE "failed")>>
               \o (IF posted THEN <<KEv("persist", new_volume, "ok")>> ELSE <<>>)]

\* update_volume: setFloat_forKey_ and synchronize, then the notification,
\* whose failure is caught and logged.
update_volume(new_volume, posted, hs, ps) ==
    [settingsVolume |-> new_volume,
     helpers |-> postVolumeChanged(hs, ps, posted),
     trace |-> <<KEv("persist", new_volume, "ok"),
                 KEv("post_volume", NoPid, IF posted THEN "ok" ELSE "failed")>>]

(***************************************************************************)
(* The helper process (video_daemon.py): main() and its window.            *)
(***************************************************************************)
\* Scale modes a caller may name; "zoom" is none of fill, fit, stretch.
ScaleModes == {"fill", "fit", "stretch", "zoom"}

\* float(s) for the strings the volume argument takes here: the value in
\* tenths, or a ValueError.
float(s) ==
    CASE s = "0.0" -> [ok |-> TRUE, v |-> 0]
      [] s = "0.5" -> [ok |-> TRUE, v |-> 5]
      [] s = "1.0" -> [ok |-> TRUE, v |-> 10]
      [] OTHER     -> [ok |-> FALSE, v |-> 0]

\* int(s) for the strings the display argument takes here, or a ValueError.
int(s) ==
    CASE s = "0" -> [ok |-> TRUE, v |-> 0]
      [] s = "1" -> [ok |-> TRUE, v |-> 1]
      [] s = "2" -> [ok |-> TRUE, v |-> 2]
      [] s = "3" -> [ok |-> TRUE, v |-> 3]
      [] OTHER   -> [ok |-> FALSE, v |-> 0]

\* int(sys.argv[5]) if sys.argv[5] else 0
displayArg(s) == IF s = "" THEN [ok |-> TRUE, v |-> 0] ELSE int(s)

\* The process before main() has run.
NotStarted ==
    [status |-> "not_started", code |-> 0, window |-> "None", target_screen |-> 0,
     video |-> NoPath, static_shown |-> FALSE, player |-> "None", volume |-> 0,
     videoGravity |-> "None", observer |-> FALSE, position |-> "none",
     cleaned |-> FALSE]

\* sys.exit(code), or the interpreter ending on an uncaught exception.
exited(code) == [NotStarted EXCEPT !.status = "exited", !.code = code]

\* The loop over NSScreen.screens() in main(): the first screen whose
\* NSScreenNumber equals display_id, 0 when there is none.
RECURSIVE findScreen(_, _, _)
findScreen(scr, display_id, k) ==
    IF k > Len(scr) THEN 0
    ELSE IF scr[k].number = display_id THEN k
    ELSE findScreen(scr, display_id, k + 1)

\* The branch of setupVideoPlayer that sets the video gravity.
gravityOfScaleMode(scale_mode) ==
    IF scale_mode = "fill" THEN "ResizeAspectFill"
    ELSE IF scale_mode = "fit" THEN "ResizeAspect"
    ELSE "Resize"

\* initWithScreen_videoPath_staticPath_volume_scaleMode_ followed by
\* makeKeyAndOrderFront_: the window on target, its player set up with the
\* end-of-media observer, the still image shown when the file exists, and the
\* video playing.
initWithScreen(target, video_path, static_path, volume, scale_mode, c) ==
    [status |-> "running", code |-> 0, window |-> "shown", target_screen |-> target,
     video |-> video_path,
     static_shown |-> (static_path # NoPath /\ static_path \in c),
     player |-> "playing", volume |-> volume,
     videoGravity |-> gravityOfScaleMode(scale_mode),
     observer |-> TRUE, position |-> "zero", cleaned |-> FALSE]

\* What main() does once the screen is found (found > 0) or not (found = 0).
mainOnScreen(argv, found, mainScreen, window_ok, c) ==
    IF ~window_ok
    THEN [daemon |-> exited(1),
          trace |-> (IF found = 0 THEN <<Ev("print", "display_not_found")>> ELSE <<>>)
                    \o <<Ev("print", "window_failed")>>]
    ELSE [daemon |-> initWithScreen(IF found = 0 THEN mainScreen ELSE found,
                                    argv[1], argv[2], float(argv[3]).v, argv[4], c),
          trace |-> (IF found = 0 THEN <<Ev("print", "display_not_found")>> ELSE <<>>)
                    \o <<Ev("window", "alloc"), Ev("player", "create"),
                         Ev("player", "play"), Ev("window", "show")>>]

\* A main() that does not look whether the video is on disk.
video_daemon_main_unchecked(argv, window_ok, scr, mainScreen, fs, c) ==
    IF Len(argv) < 5
    THEN [daemon |-> exited(1), trace |-> <<Ev("print", "usage")>>]
    ELSE IF ~float(argv[3]).ok \/ ~displayArg(argv[5]).ok
    THEN [daemon |-> exited(1), trace |-> <<Ev("traceback", "ValueError")>>]
    ELSE mainOnScreen(argv, findScreen(scr, displayArg(argv[5]).v, 1), mainScreen,
                      window_ok, c)

\* main(): argv is sys.argv[1:]; window_ok tells whether the window could be
\* initialised; mainScreen is NSScreen.mainScreen().
video_daemon_main(argv, window_ok, scr, mainScreen, fs, c) ==
    IF Len(argv) < 5
    THEN [daemon |-> exited(1), trace |-> <<Ev("print", "usage")>>]
    ELSE IF ~float(argv[3]).ok \/ ~displayArg(argv[5]).ok
    THEN [daemon |-> exited(1), trace |-> <<Ev("traceback", "ValueError")>>]
    ELSE IF argv[1] \notin fs
    THEN [daemon |-> exited(1), trace |-> <<Ev("print", "video_not_found")>>]
    ELSE mainOnScreen(argv, findScreen(scr, displayArg(argv[5]).v, 1), mainScreen,
                      window_ok, c)

\* playerItemDidReachEnd_
playerItemDidReachEnd(w) ==
    [daemon |-> [w EXCEPT !.position = "zero", !.player = "playing"],
     trace |-> <<Ev("player", "seek_zero"), Ev("player", "play")>>]

\* AVPlayerItemDidPlayToEndTimeNotification is posted for the player item: the
\* item is at its end and the player has stopped there; the notification
\* center calls the handler when the window is still an observer.
itemDidPlayToEnd(w) ==
    IF w.observer
    THEN playerItemDidReachEnd([w EXCEPT !.position = "end", !.player = "paused"])
    ELSE [daemon |-> [w EXCEPT !.position = "end", !.player = "paused"], trace |-> <<>>]

\* A cleanup that pauses and stays subscribed.
VideoWallpaperWindow_cleanup_keeps_observer(w) ==
    [w EXCEPT !.player = IF w.player # "None" THEN "paused" ELSE "None",
              !.cleaned = TRUE]

\* VideoWallpaperWindow.cleanup; cleaned records that it has run.
VideoWallpaperWindow_cleanup(w) ==
    [w EXCEPT !.player = IF w.player # "None" THEN "paused" ELSE "None",
              !.observer = FALSE,
              !.cleaned = TRUE]

\* signal_handler: NSApplication terminates and the process ends.
signal_handler(w) == exited(0)

(***************************************************************************)
(* kill_all_daemons, statement by statement, for threads that run it at    *)
(* the same time.                                                          *)
(***************************************************************************)
Contexts == {"main", "other"}

\* A thread that is not inside kill_all_daemons.
Outside == [at |-> "out", i |-> 0, sent |-> {}]

(***************************************************************************)
(* The state machine.                                                      *)
(***************************************************************************)
NoReq == [none |-> TRUE]
NoProbe == [before |-> Res(NewInstance(<<0, 0>>)), after |-> Res(NewInstance(<<0, 0>>))]

\* VideoEngine.__init__, SPVideoWallpaperManager.init and the machine around them.
Init ==
    /\ windows = <<>>
    /\ gen = 0
    /\ retired = <<>>
    /\ failed = <<>>
    /\ cache = {}
    /\ files = {PathA, PathA2}
    /\ screens = OneScreen
    /\ settingsVolume = 0
    /\ daemon_pids = <<>>
    /\ procs = <<>>
    /\ helpers = <<>>
    /\ daemon = NotStarted
    /\ ctx = [c \in Contexts |-> Outside]
    /\ pc = "idle"
    /\ op = "none"
    /\ req = NoReq
    /\ result = "none"
    /\ trace = <<>>
    /\ probe = NoProbe

\* The videos of a request a still frame would have to be generated for.
genCandidates(video_paths, display_ids) ==
    IF Len(video_paths) # Len(display_ids) THEN {}
    ELSE {p \in Range(video_paths) \cap files : StaticPath(p) \notin cache}

\* NSScreen.mainScreen() matters only to an individual request with an index out
\* of range.
mainCandidates(video_paths, display_ids) ==
    IF /\ Len(video_paths) = Len(display_ids)
       /\ ~is_spanning(video_paths)
       /\ \E i \in 1..Len(display_ids) : display_ids[i] >= Len(screens)
    THEN 1..Len(screens) ELSE {1}

\* The creates an accepted request with all its videos on disk leads to.
faultDomain(video_paths, display_ids) ==
    IF Len(video_paths) # Len(display_ids) \/ ~(Range(video_paths) \subseteq files)
    THEN 0 ELSE attemptCount(video_paths, display_ids, screens)

\* engine.start_video_wallpaper(video_paths, display_ids)
Start(video_paths, display_ids) ==
    /\ pc = "idle"
    /\ \E main \in mainCandidates(video_paths, display_ids),
          faults \in [1..faultDomain(video_paths, display_ids) -> Stages],
          genOk \in SUBSET genCandidates(video_paths, display_ids) :
         \E r \in {start_video_wallpaper(windows, video_paths, display_ids, cache,
                                         settingsVolume, screens, main, faults, genOk,
                                         1 - gen, files)} :
            /\ windows' = r.windows
            /\ gen' = IF r.built THEN 1 - gen ELSE gen
            /\ retired' = r.retired
            /\ failed' = r.failed
            /\ cache' = r.cache
            /\ result' = r.result
            /\ trace' = r.trace
    /\ op' = "start"
    /\ req' = [video_paths |-> video_paths, display_ids |-> display_ids]
    /\ pc' = "returned"
    /\ UNCHANGED <<files, screens, settingsVolume, daemon_pids, procs, helpers, daemon, ctx, probe>>

\* engine.stop_video_wallpapers() (and engine.cleanup(), which only calls it)
Stop ==
    /\ pc = "idle"
    /\ \E r \in {stop_video_wallpapers(windows)} :
          /\ windows' = r.windows
          /\ retired' = r.retired
          /\ trace' = r.trace
    /\ failed' = <<>>
    /\ op' = "stop"
    /\ req' = NoReq
    /\ result' = "stopped"
    /\ pc' = "returned"
    /\ UNCHANGED <<gen, cache, files, screens, settingsVolume, daemon_pids, procs, helpers, daemon, ctx,
                   probe>>

\* cleanup() called once more on an instance the last operation tore down
\* (i >= 1), or on an instance that was only initialised (i = 0).
CleanupAgain(i) ==
    /\ pc = "returned"
    /\ i \in 0..Len(retired)
    /\ LET before == IF i = 0 THEN Res(NewInstance(<<gen, 0>>)) ELSE retired[i]
       IN /\ probe' = [before |-> before, after |-> cleanup(before)]
          /\ trace' = cleanupTrace(before)
          /\ retired' = IF i = 0 THEN retired ELSE [retired EXCEPT ![i] = cleanup(before)]
    /\ op' = "cleanup"
    /\ req' = NoReq
    /\ result' = "none"
    /\ UNCHANGED <<windows, gen, failed, cache, files, screens, settingsVolume,
                   daemon_pids, procs, helpers, daemon, ctx, pc>>

\* The caller goes on: what the last operation left to look at is dropped.
Return ==
    /\ pc = "returned"
    /\ pc' = "idle"
    /\ op' = "none"
    /\ req' = NoReq
    /\ result' = "none"
    /\ trace' = <<>>
    /\ retired' = <<>>
    /\ failed' = <<>>
    /\ probe' = NoProbe
    /\ UNCHANGED <<windows, gen, cache, files, screens, settingsVolume, daemon_pids, procs,
                   helpers, daemon, ctx>>

SpawnOutcomes == {"ok", "log_error", "os_error", "late_error"}

\* engine.launch_daemon(video_path, static_path, volume, scale_mode, display_id);
\* the caller passes the configured volume, as start_video_wallpaper does.
Launch(video_path, display_id) ==
    /\ pc = "idle"
    /\ Len(procs) < MaxPid
    /\ \E script_exists \in BOOLEAN, spawn \in SpawnOutcomes :
         \E r \in {launch_daemon(script_exists, spawn, Len(procs) + 1, daemon_pids, procs)} :
            /\ daemon_pids' = r.daemon_pids
            /\ procs' = r.procs
            /\ helpers' = daemonMain(helpers, r.procs, effectiveVolume(settingsVolume))
            /\ result' = r.ret
            /\ trace' = r.trace
            /\ req' = [video_path |-> video_path, display_id |-> display_id,
                       script_exists |-> script_exists, spawn |-> spawn]
    /\ op' = "launch"
    /\ pc' = "returned"
    /\ UNCHANGED <<windows, gen, retired, failed, cache, files, screens, settingsVolume,
                   probe, daemon,
                   ctx>>

\* engine.kill_all_daemons()
KillAll ==
    /\ pc = "idle"
    /\ \E posted \in BOOLEAN, plan \in [1..Len(daemon_pids) -> {"deliver", "error"}] :
         \E r \in {kill_all_daemons(daemon_pids, procs, posted, plan)} :
            /\ daemon_pids' = r.daemon_pids
            /\ procs' = r.procs
            /\ trace' = r.trace
    /\ op' = "kill"
    /\ req' = NoReq
    /\ result' = "none"
    /\ pc' = "returned"
    /\ UNCHANGED <<windows, gen, retired, failed, cache, files, screens, settingsVolume,
                   helpers, daemon, ctx, probe>>

\* engine.update_volume(new_volume)
UpdateVolume(new_volume) ==
    /\ pc = "idle"
    /\ \E posted \in BOOLEAN :
         \E r \in {update_volume(new_volume, posted, helpers, procs)} :
            /\ settingsVolume' = r.settingsVolume
            /\ helpers' = r.helpers
            /\ trace' = r.trace
            /\ req' = [new_volume |-> new_volume, posted |-> posted]
    /\ op' = "volume"
    /\ result' = "none"
    /\ pc' = "returned"
    /\ UNCHANGED <<windows, gen, retired, failed, cache, files, screens, daemon_pids,
                   procs, probe, daemon,
                   ctx>>

\* The volume-changed notification reaches a running helper process.
Deliver(pid) ==
    /\ pid \in DOMAIN helpers
    /\ procs[pid] = "running"
    /\ helpers[pid].inbox = "pending"
    /\ helpers' = [helpers EXCEPT ![pid] = notificationArrives(helpers[pid])]
    /\ UNCHANGED <<windows, gen, retired, failed, cache, files, screens, settingsVolume,
                   daemon_pids, procs, pc, op, req, result, trace, probe, daemon,
                   ctx>>

\* engine.get_or_generate_static_frame(video_path); a video that is not on disk
\* cannot be loaded as an asset.
GetFrame(video_path) ==
    /\ pc = "idle"
    /\ \E outcome \in GenOutcomes :
         /\ video_path \notin files => outcome # "ok"
         /\ \E r \in {get_or_generate_static_frame(
                          video_path, cache,
                          IF generate_static_frame(outcome) THEN {video_path} ELSE {})} :
               /\ cache' = r.cache
               /\ result' = r.ret
               /\ trace' = r.trace
         /\ req' = [video_path |-> video_path, outcome |-> outcome]
    /\ op' = "frame"
    /\ pc' = "returned"
    /\ UNCHANGED <<windows, gen, retired, failed, files, screens, settingsVolume,
                   daemon_pids, procs, helpers, daemon, ctx, probe>>

\* The source video changes under the engine: the file at video_path is
\* removed, or a file is written there.
ChangeVideo(video_path) ==
    /\ pc = "idle"
    /\ files' = IF video_path \in files THEN files \ {video_path}
                ELSE files \cup {video_path}
    /\ UNCHANGED <<windows, gen, retired, failed, cache, screens, settingsVolume,
                   daemon_pids, procs, helpers, daemon, ctx, pc, op, req, result, trace, probe>>

\* manager.startWallpaperWithPaths_displayIDs_volume_scaleMode_ with one video
\* for all of display_ids, every create succeeding.
Span(display_ids) ==
    /\ pc = "idle"
    /\ \E r \in {startWallpaperWithPaths(windows, [k \in 1..Len(display_ids) |-> PathA],
                                         display_ids, effectiveVolume(settingsVolume),
                                         screens, 1, <<>>, 1 - gen, files)} :
          /\ windows' = r.windows
          /\ retired' = r.retired
          /\ failed' = r.failed
          /\ trace' = r.trace
          /\ result' = [ret |-> r.ret, canvas |-> loggedCanvas(display_ids, screens)]
    /\ gen' = 1 - gen
    /\ op' = "span"
    /\ req' = [display_ids |-> display_ids]
    /\ pc' = "returned"
    /\ UNCHANGED <<cache, files, screens, settingsVolume, daemon_pids, procs, helpers, daemon, ctx,
                   probe>>

\* manager.startWallpaperWithPaths_displayIDs_volume_scaleMode_(video_paths,
\* display_ids, volume, scale_mode) called on the manager itself, with no
\* statement of a setup raising.
StartWallpaper(video_paths, display_ids, scale_mode) ==
    /\ pc = "idle"
    /\ \E main \in mainCandidates(video_paths, display_ids) :
         /\ \E r \in {startWallpaperWithPaths(windows, video_paths, display_ids,
                                              effectiveVolume(settingsVolume), screens,
                                              main, <<>>, 1 - gen, files)} :
               /\ windows' = r.windows
               /\ retired' = r.retired
               /\ failed' = r.failed
               /\ trace' = r.trace
               /\ result' = r.ret
         /\ req' = [video_paths |-> video_paths, display_ids |-> display_ids,
                    scale_mode |-> scale_mode, main |-> main]
    /\ gen' = 1 - gen
    /\ op' = "start_wallpaper"
    /\ pc' = "returned"
    /\ UNCHANGED <<cache, files, screens, settingsVolume, daemon_pids, procs, helpers,
                   daemon, ctx, probe>>

\* python video_daemon.py argv...: main() up to app.run() or to the exit;
\* mainScreen is the screen NSScreen.mainScreen() would give.
DaemonMain(argv) ==
    /\ pc = "idle"
    /\ daemon.status \in {"not_started", "exited"}
    /\ \E window_ok \in BOOLEAN, mainScreen \in 1..Len(screens) :
         /\ \E r \in {video_daemon_main(argv, window_ok, screens, mainScreen, files,
                                        cache)} :
               /\ daemon' = r.daemon
               /\ trace' = r.trace
               /\ result' = r.daemon.status
         /\ req' = [argv |-> argv, window_ok |-> window_ok, mainScreen |-> mainScreen]
    /\ op' = "daemon_main"
    /\ pc' = "returned"
    /\ UNCHANGED <<windows, gen, retired, failed, cache, files, screens, settingsVolume,
                   daemon_pids, procs, helpers, ctx, probe>>

\* The player item of the helper process plays to its end.  The notification
\* is posted by the player on its own, so it may also come after a pause.
ItemDidPlayToEnd ==
    /\ pc = "idle"
    /\ daemon.status = "running"
    /\ \E r \in {itemDidPlayToEnd(daemon)} :
          /\ daemon' = r.daemon
          /\ trace' = r.trace
    /\ op' = "end_of_media"
    /\ req' = [cleaned |-> daemon.cleaned]
    /\ result' = "none"
    /\ pc' = "returned"
    /\ UNCHANGED <<windows, gen, retired, failed, cache, files, screens, settingsVolume,
                   daemon_pids, procs, helpers, ctx, probe>>

\* window.cleanup() in the helper process
DaemonCleanup ==
    /\ pc = "idle"
    /\ daemon.status = "running"
    /\ daemon' = VideoWallpaperWindow_cleanup(daemon)
    /\ trace' = <<>>
    /\ op' = "daemon_cleanup"
    /\ req' = NoReq
    /\ result' = "none"
    /\ pc' = "returned"
    /\ UNCHANGED <<windows, gen, retired, failed, cache, files, screens, settingsVolume,
                   daemon_pids, procs, helpers, ctx, probe>>

\* SIGTERM or SIGINT reaches the helper process.
DaemonSignal ==
    /\ pc = "idle"
    /\ daemon.status = "running"
    /\ daemon' = signal_handler(daemon)
    /\ trace' = <<Ev("print", "signal")>>
    /\ op' = "daemon_signal"
    /\ req' = NoReq
    /\ result' = "exited"
    /\ pc' = "returned"
    /\ UNCHANGED <<windows, gen, retired, failed, cache, files, screens, settingsVolume,
                   daemon_pids, procs, helpers, ctx, probe>>

\* A thread calls kill_all_daemons: it posts the terminate notification and
\* comes to the for statement over daemon_pids.  Nothing makes it wait for a
\* thread that is already there.
EnterKill(c) ==
    /\ pc = "idle"
    /\ ctx[c].at = "out"
    /\ \E posted \in BOOLEAN : trace' = send_terminate_notification(posted)
    /\ ctx' = [ctx EXCEPT ![c] = [at |-> "loop", i |-> 0, sent |-> {}]]
    /\ UNCHANGED <<windows, gen, retired, failed, cache, files, screens, settingsVolume,
                   daemon_pids, procs, helpers, daemon, pc, op, req, result, probe>>

\* One turn of the for statement in thread c: the list iterator gives the next
\* pid of the registry as it is now, and os.kill signals it; when the index
\* has reached the length of the registry the loop is over.
KillStep(c) ==
    /\ ctx[c].at = "loop"
    /\ IF ctx[c].i < Len(daemon_pids)
       THEN \E planned \in {"deliver", "error"} :
              \E out \in {killOutcome(daemon_pids[ctx[c].i + 1], procs, planned)} :
                 /\ procs' = signalled(daemon_pids[ctx[c].i + 1], procs, out)
                 /\ trace' = <<KEv("kill", daemon_pids[ctx[c].i + 1], out)>>
                 /\ ctx' = [ctx EXCEPT ![c].i = @ + 1,
                                       ![c].sent = @ \cup {daemon_pids[ctx[c].i + 1]}]
       ELSE /\ ctx' = [ctx EXCEPT ![c].at = "clear"]
            /\ UNCHANGED <<procs, trace>>
    /\ UNCHANGED <<windows, gen, retired, failed, cache, files, screens, settingsVolume,
                   daemon_pids, helpers, daemon, pc, op, req, result, probe>>

\* self.daemon_pids.clear() in thread c, which then returns.
ClearStep(c) ==
    /\ ctx[c].at = "clear"
    /\ daemon_pids' = <<>>
    /\ ctx' = [ctx EXCEPT ![c] = Outside]
    /\ UNCHANGED <<windows, gen, retired, failed, cache, files, screens, settingsVolume,
                   procs, helpers, daemon, pc, op, req, result, trace, probe>>

\* A helper process ends: main() exits, or the SIGTERM handler terminates it.
ProcExit(pid) ==
    /\ pid \in DOMAIN procs
    /\ procs[pid] # "exited"
    /\ procs' = [procs EXCEPT ![pid] = "exited"]
    /\ UNCHANGED <<windows, gen, retired, failed, cache, files, screens, settingsVolume,
                   daemon_pids, helpers, daemon, ctx, pc, op, req, result, trace, probe>>

Requests == SeqsUpTo(VideoPaths, MaxLen) \X SeqsUpTo(DisplayIds, MaxLen)

\* The in-process session.
Next ==
    \/ \E r \in Requests : Start(r[1], r[2])
    \/ Stop
    \/ \E i \in 0..MaxLen : CleanupAgain(i)
    \/ Return

Spec == Init /\ [][Next]_vars

\* The helper processes and their registry.
NextDaemon ==
    \/ \E v \in VideoPaths, d \in DisplayIds : Launch(v, d)
    \/ KillAll
    \/ \E p \in 1..MaxPid : ProcExit(p)
    \/ Stop
    \/ Return

SpecDaemon == Init /\ [][NextDaemon]_vars

\* kill_all_daemons over every registry: daemon_pids is a public list that
\* nothing under src/ appends to, so its content is whatever the application
\* recorded of the pids launch_daemon returned to it.
InitKill ==
    /\ \E n \in 0..MaxPid :
         /\ procs = [p \in 1..n |-> "running"]
         /\ helpers = [p \in 1..n |-> NewHelper(default_volume)]
         /\ daemon_pids \in {s \in SeqsUpTo(1..n, n) :
                               \A i, j \in 1..Len(s) : s[i] = s[j] => i = j}
    /\ daemon = NotStarted
    /\ ctx = [c \in Contexts |-> Outside]
    /\ windows = <<>>
    /\ gen = 0
    /\ retired = <<>>
    /\ failed = <<>>
    /\ cache = {}
    /\ files = {PathA, PathA2}
    /\ screens = OneScreen
    /\ settingsVolume = 0
    /\ pc = "idle"
    /\ op = "none"
    /\ req = NoReq
    /\ result = "none"
    /\ trace = <<>>
    /\ probe = NoProbe

SpecKill == InitKill /\ [][NextDaemon]_vars

\* Screen frames the canvas is computed over: small ones, among them frames
\* with a negative origin and frames without width or height, and the two
\* 1920x1080 screens side by side.
StdLeft  == [x |-> 0,    y |-> 0, w |-> 1920, h |-> 1080]
StdRight == [x |-> 1920, y |-> 0, w |-> 1920, h |-> 1080]
GeomFrames == [x : {-1, 0}, y : {0, 1}, w : {0, 2}, h : {0, 1}] \cup {StdLeft, StdRight}

\* Spanning requests: at least two display indices, one index out of range.
SpanRequests == UNION {[1..k -> 0..MaxScreens] : k \in 2..MaxLen}

\* One spanning request on every enumeration of screens.
InitGeom ==
    /\ screens \in UNION {[1..k -> GeomFrames] : k \in 1..MaxScreens}
    /\ windows = <<>>
    /\ gen = 0
    /\ retired = <<>>
    /\ failed = <<>>
    /\ cache = {}
    /\ files = {PathA, PathA2}
    /\ settingsVolume = 0
    /\ daemon_pids = <<>>
    /\ procs = <<>>
    /\ helpers = <<>>
    /\ daemon = NotStarted
    /\ ctx = [c \in Contexts |-> Outside]
    /\ pc = "idle"
    /\ op = "none"
    /\ req = NoReq
    /\ result = "none"
    /\ trace = <<>>
    /\ probe = NoProbe

NextGeom == \E ids \in SpanRequests : Span(ids)

SpecGeom == InitGeom /\ [][NextGeom]_vars

\* The still-frame cache.
NextCache ==
    \/ \E v \in VideoPaths : GetFrame(v)
    \/ \E v \in VideoPaths : ChangeVideo(v)
    \/ Return

SpecCache == Init /\ [][NextCache]_vars

\* The volume setting and the helper processes.
NextVolume ==
    \/ \E v \in VideoPaths, d \in DisplayIds : Launch(v, d)
    \/ \E v \in Volumes : UpdateVolume(v)
    \/ \E p \in 1..MaxPid : Deliver(p)
    \/ Return

SpecVolume == Init /\ [][NextVolume]_vars

\* The volume setting and the in-process session: one video on one display, or
\* one video spanned over two.
SessionRequests == {<< <<PathA>>, <<0>> >>, << <<PathA, PathA>>, <<0, 0>> >>}

NextSessionVolume ==
    \/ \E r \in SessionRequests : Start(r[1], r[2])
    \/ \E v \in Volumes : UpdateVolume(v)
    \/ Return

SpecSessionVolume == Init /\ [][NextSessionVolume]_vars

\* Command lines of the helper process: up to five arguments, each position
\* with well-formed and malformed values; PathB is not on disk.
DaemonArgv ==
    {SubSeq(<<v, s, vol, m, d>>, 1, k) :
        v \in {PathA, PathB}, s \in {NoPath, StaticPath(PathA)},
        vol \in {"0.0", "0.5", "loud"}, m \in ScaleModes,
        d \in {"", "0", "1", "2", "x"}, k \in 0..5}

\* NSScreenNumber of a screen: the display id the window server gave it.
ScreenNumbers == 1..(MaxScreens + 1)

\* Screens side by side, each with its NSScreenNumber.
numberedScreens(ns) ==
    [i \in 1..Len(ns) |->
        [x |-> 1920 * (i - 1), y |-> 0, w |-> 1920, h |-> 1080, number |-> ns[i]]]

\* One helper process on every enumeration of screens with distinct numbers;
\* the still image of PathA is in the cache.
InitHelper ==
    /\ \E ns \in UNION {[1..k -> ScreenNumbers] : k \in 1..MaxScreens} :
         /\ \A i, j \in 1..Len(ns) : ns[i] = ns[j] => i = j
         /\ screens = numberedScreens(ns)
    /\ windows = <<>>
    /\ gen = 0
    /\ retired = <<>>
    /\ failed = <<>>
    /\ cache = {StaticPath(PathA)}
    /\ files = {PathA, PathA2}
    /\ settingsVolume = 0
    /\ daemon_pids = <<>>
    /\ procs = <<>>
    /\ helpers = <<>>
    /\ daemon = NotStarted
    /\ ctx = [c \in Contexts |-> Outside]
    /\ pc = "idle"
    /\ op = "none"
    /\ req = NoReq
    /\ result = "none"
    /\ trace = <<>>
    /\ probe = NoProbe

NextHelper ==
    \/ \E argv \in DaemonArgv : DaemonMain(argv)
    \/ ItemDidPlayToEnd
    \/ DaemonCleanup
    \/ DaemonSignal
    \/ Return

SpecHelper == InitHelper /\ [][NextHelper]_vars

\* kill_all_daemons run by two threads at a time, over every registry.
NextRegistry ==
    \/ \E c \in Contexts : EnterKill(c)
    \/ \E c \in Contexts : KillStep(c)
    \/ \E c \in Contexts : ClearStep(c)
    \/ \E p \in 1..MaxPid : ProcExit(p)

SpecRegistry == InitKill /\ [][NextRegistry]_vars

\* The manager called directly: as many videos as displays, one of the
\* videos not on disk.
ManagerRequests ==
    UNION {[1..k -> {PathA, PathB}] \X [1..k -> DisplayIds] : k \in 1..MaxLen}

NextManager ==
    \/ \E r \in ManagerRequests, m \in ScaleModes : StartWallpaper(r[1], r[2], m)
    \/ Stop
    \/ Return

SpecManager == Init /\ [][NextManager]_vars

(***************************************************************************)
(* Properties.                                                             *)
(***************************************************************************)
\* Every surface of the session old is closed in tr before tr allocates a window.
TornDownFirst(old, tr) ==
    \A i \in 1..Len(old) :
        \E j \in 1..Len(tr) :
            /\ tr[j].ev = "close"
            /\ tr[j].id = old[i].id
            /\ \A k \in 1..Len(tr) : tr[k].ev = "alloc" => j < k

\* Every surface of the session ws was allocated in tr, is on screen and plays.
FreshSession(ws, tr) ==
    \A i \in 1..Len(ws) :
        /\ ws[i].window = "shown"
        /\ ws[i].player.state = "playing"
        /\ \E j \in 1..Len(tr) : tr[j].ev = "alloc" /\ tr[j].id = ws[i].id

\* C1 as stated: whenever start_video_wallpaper returns, every surface of the
\* session it found was cleaned up before the first new window was allocated,
\* and the session holds only surfaces this start created, all of them live.
C1_EveryStart ==
    [][(pc = "idle" /\ op' = "start") =>
          TornDownFirst(windows, trace') /\ FreshSession(windows', trace')]_vars

\* C1, for the starts that pass the length check: whenever a start that was not
\* rejected for lists of different lengths returns, every surface of the session
\* it found was cleaned up before the first new window was allocated, and the
\* session holds only surfaces this start created, all of them on screen and
\* playing.
C1_AcceptedStart ==
    [][(pc = "idle" /\ op' = "start" /\ result' # "mismatch") =>
          TornDownFirst(windows, trace') /\ FreshSession(windows', trace')]_vars

\* A start has replaced a session: the old surfaces are retired, new ones play.
C1_Replaced ==
    /\ op = "start"
    /\ result = "started"
    /\ retired # <<>>
    /\ windows # <<>>

\* C2: after stop_video_wallpapers returns no surface is left in the session,
\* no helper process is still in the registry and none is left running without
\* having been signalled.
C2_StopTearsDownAll ==
    op = "stop" =>
        /\ windows = <<>>
        /\ daemon_pids = <<>>
        /\ \A p \in DOMAIN procs : procs[p] # "running"

\* C3: a start whose video list and display list differ in length is rejected
\* for the mismatch, allocates no window and attempts no create.
C3_MismatchRejected ==
    (op = "start" /\ Len(req.video_paths) # Len(req.display_ids)) =>
        /\ result = "mismatch"
        /\ failed = <<>>
        /\ \A j \in 1..Len(trace) : trace[j].ev # "alloc"

\* A mismatched start has returned while a session was up.
C3_Rejected ==
    /\ op = "start"
    /\ Len(req.video_paths) # Len(req.display_ids)
    /\ Len(req.video_paths) > 0
    /\ Range(req.video_paths) \subseteq files
    /\ windows # <<>>

\* C4: a start with lists of equal length of which some videos, but not all,
\* are missing on disk succeeds and leaves one surface for every display whose
\* video exists.
C4_PartialMissingStarts ==
    (/\ op = "start"
     /\ Len(req.video_paths) = Len(req.display_ids)
     /\ \E i \in 1..Len(req.video_paths) : req.video_paths[i] \in files
     /\ \E i \in 1..Len(req.video_paths) : req.video_paths[i] \notin files) =>
        /\ result = "started"
        /\ Len(windows) = Cardinality({i \in 1..Len(req.video_paths) :
                                          req.video_paths[i] \in files})

\* The displays a create is attempted for: all of them in individual mode, the
\* ones with a screen in spanning mode.
Attempted(video_paths, display_ids) ==
    IF Cardinality(Range(video_paths)) = 1 /\ Len(video_paths) > 1
    THEN {i \in 1..Len(display_ids) : display_ids[i] < Len(screens)}
    ELSE 1..Len(display_ids)

\* C5: when the session is built, the build reports success exactly when it
\* left at least one surface, and a create was attempted for every display of
\* the request, the ones after a failed create included, in both modes.
C5_SuccessIffOneSurface ==
    (op = "start" /\ result \in {"started", "failed"}) =>
        /\ result = "started" <=> Len(windows) > 0
        /\ Cardinality({trace[j].id : j \in {k \in 1..Len(trace) : trace[k].ev = "alloc"}})
              = Cardinality(Attempted(req.video_paths, req.display_ids))
        /\ Len(windows) + Len(failed)
              = Cardinality(Attempted(req.video_paths, req.display_ids))

\* A spanning build whose first create failed and whose second one succeeded.
C5_FailureThenSurface ==
    /\ op = "start"
    /\ result = "started"
    /\ Cardinality(Range(req.video_paths)) = 1 /\ Len(req.video_paths) > 1
    /\ failed # <<>>
    /\ windows # <<>>
    /\ failed[1].id[2] < windows[1].id[2]

\* C6: cleanup on an instance that holds neither window nor player (it was
\* cleaned up before, or its setup never got to create them) pauses, detaches
\* and closes nothing and leaves the instance as it was.
C6_CleanupIdempotent ==
    (/\ op = "cleanup"
     /\ probe.before.window = "None"
     /\ probe.before.player.state = "None") =>
        /\ trace = <<>>
        /\ probe.after = probe.before

\* cleanup was called again on a surface the last teardown had destroyed.
C6_CleanedTwice ==
    /\ op = "cleanup"
    /\ probe.before.id[2] >= 1
    /\ probe.before.window = "None"
    /\ \E i \in 1..Len(retired) : retired[i] = probe.after

\* C7: after kill_all_daemons the registry is empty, whatever each signal and
\* the broadcast came to.
C7_RegistryEmptied ==
    op = "kill" => daemon_pids = <<>>

\* kill_all_daemons returned after a failed broadcast, a signal to a process
\* that was gone and a signal that raised another error.
C7_AllOutcomes ==
    /\ op = "kill"
    /\ trace[1].out = "failed"
    /\ \E i \in 2..Len(trace) : trace[i].out = "not_found"
    /\ \E i \in 2..Len(trace) : trace[i].out = "error"
    /\ \E i \in 2..Len(trace) : trace[i].out = "ok"

\* C8: kill_all_daemons posts the broadcast first and then signals every pid of
\* the registry once, in registry order, whatever the earlier signals and the
\* broadcast came to.
C8_BroadcastThenEveryPid ==
    [][(pc = "idle" /\ op' = "kill") =>
          /\ Len(trace') = Len(daemon_pids) + 1
          /\ trace'[1].ev = "broadcast"
          /\ \A i \in 1..Len(daemon_pids) :
                trace'[i + 1].ev = "kill" /\ trace'[i + 1].id = daemon_pids[i]]_vars

\* A pid was signalled after the broadcast and the signal before it had failed.
C8_SignalAfterFailure ==
    /\ op = "kill"
    /\ Len(trace) >= 3
    /\ trace[1].out = "failed"
    /\ trace[2].out # "ok"
    /\ trace[3].out = "ok"

\* C9: when launch_daemon returns a pid, that pid is in the registry.
C9_LaunchedIsTracked ==
    (op = "launch" /\ result # NoPid) =>
        \E i \in 1..Len(daemon_pids) : daemon_pids[i] = result

\* C10: launch_daemon returns no pid when the script is missing, without
\* spawning, and when the try block around the spawn raises; then the registry
\* is as before, and so is the process table unless the child was already
\* running; no call spawns more than once.
C10_LaunchFailure ==
    [][(pc = "idle" /\ op' = "launch") =>
          /\ Cardinality({j \in 1..Len(trace') : trace'[j].ev = "popen"}) <= 1
          /\ ~req'.script_exists =>
                \A j \in 1..Len(trace') : trace'[j].ev # "popen"
          /\ (~req'.script_exists \/ req'.spawn # "ok") =>
                /\ result' = NoPid
                /\ daemon_pids' = daemon_pids
          /\ (~req'.script_exists \/ req'.spawn \in {"log_error", "os_error"}) =>
                procs' = procs]_vars

\* A launch failed at the spawn while the registry held pids.
C10_SpawnRaised ==
    /\ op = "launch"
    /\ req.script_exists
    /\ req.spawn = "os_error"
    /\ result = NoPid
    /\ daemon_pids # <<>>

\* C11: update_volume saves the value before it posts the notification, and
\* the value is saved whether or not the notification could be posted.
C11_PersistThenPost ==
    op = "volume" =>
        /\ settingsVolume = req.new_volume
        /\ Len(trace) = 2
        /\ trace[1].ev = "persist" /\ trace[1].id = req.new_volume
        /\ trace[2].ev = "post_volume"
        /\ trace[2].out = (IF req.posted THEN "ok" ELSE "failed")

\* update_volume returned with a new value saved and the notification failed,
\* while a helper process was running.
C11_SavedWithoutPost ==
    /\ op = "volume"
    /\ ~req.posted
    /\ settingsVolume # default_volume
    /\ \E p \in DOMAIN procs : procs[p] = "running"

\* C12: a running helper process the volume-changed notification has reached
\* plays at the volume the settings hold.
C12_NotifiedDaemonFollows ==
    \A p \in DOMAIN helpers :
        (procs[p] = "running" /\ helpers[p].inbox = "delivered") =>
            helpers[p].volume = settingsVolume

\* C13: after update_volume(v) every player of the session has volume v.
C13_SessionFollows ==
    op = "volume" =>
        \A i \in 1..Len(windows) : windows[i].player.volume = req.new_volume

\* C14: when the still image of a video is in the cache, get_or_generate
\* returns its path, generates nothing and leaves the cache as it is, whatever
\* has become of the video file.
C14_WarmCacheHit ==
    [][(pc = "idle" /\ op' = "frame" /\ StaticPath(req'.video_path) \in cache) =>
          /\ result' = StaticPath(req'.video_path)
          /\ cache' = cache
          /\ \A j \in 1..Len(trace') : trace'[j].ev # "generate"]_vars

\* The cached image was returned for a video that is no longer on disk.
C14_HitAfterChange ==
    /\ op = "frame"
    /\ trace = <<Ev("cached", req.video_path)>>
    /\ result = StaticPath(req.video_path)
    /\ req.video_path \notin files

C16_SpanningIffOneVideoManyDisplays ==
    (op = "start" /\ result \in {"started", "failed"}) =>
        IF /\ Len(req.display_ids) > 1
           /\ \A i, j \in 1..Len(req.video_paths) : req.video_paths[i] = req.video_paths[j]
        THEN \A i \in 1..Len(windows) :
                /\ windows[i].crop_info.set
                /\ windows[i].player.video = req.video_paths[1]
        ELSE \A i \in 1..Len(windows) :
                /\ windows[i].crop_info = NoCrop
                /\ windows[i].player.video = req.video_paths[windows[i].id[2]]

\* Two displays got two different videos, neither of them cropped.
C16_TwoVideosTwoDisplays ==
    /\ op = "start"
    /\ Len(windows) = 2
    /\ windows[1].player.video # windows[2].player.video
    /\ windows[1].crop_info = NoCrop
    /\ windows[2].crop_info = NoCrop

\* The frames of the displays of a request that resolve to a screen.
SpannedFrames(display_ids) ==
    {screens[d + 1] : d \in {e \in Range(display_ids) : e < Len(screens)}}

MinOf(S) == CHOOSE m \in S : \A e \in S : m <= e
MaxOf(S) == CHOOSE m \in S : \A e \in S : m >= e

\* The bounding box of a non-empty set of frames.
BoundingBox(F) ==
    [min_x |-> MinOf({f.x : f \in F}), min_y |-> MinOf({f.y : f \in F}),
     max_x |-> MaxOf({f.x + f.w : f \in F}), max_y |-> MaxOf({f.y + f.h : f \in F})]

\* Exact fractions <<numerator, denominator>> with positive denominators.
FracEq(a, b) == a[1] * b[2] = b[1] * a[2]
FracLe(a, b) == a[1] * b[2] <= b[1] * a[2]

\* C17: whenever some display of a spanning request resolves to a screen, the
\* canvas is the bounding box of the resolved frames (minima of the origins,
\* maxima of origin plus size), which depends on the set of displays only, not
\* on the order they are listed in.
C17_CanvasIsBoundingBox ==
    (op = "span" /\ SpannedFrames(req.display_ids) # {}) =>
        result.canvas = {BoundingBox(SpannedFrames(req.display_ids))}

\* The canvas of two different screens, listed second screen first.
C17_TwoScreensReversed ==
    /\ op = "span"
    /\ req.display_ids = <<1, 0>>
    /\ Len(screens) = 2
    /\ screens[1].x + screens[1].w > screens[2].x + screens[2].w
    /\ screens[1].x > screens[2].x
    /\ result.canvas # {}

\* C18: on a canvas with positive width and height every surface gets the crop
\* rectangle ((x - min_x)/width, (y - min_y)/height, w/width, h/height) of its
\* screen; for the screens (0,0,1920,1080) and (1920,0,1920,1080) the canvas is
\* (0,0,3840,1080) and the crop rectangles are (0,0,1/2,1) and (1/2,0,1/2,1).
C18_CropRectFormula ==
    (op = "span" /\ result.ret = "true") =>
        LET B == BoundingBox(SpannedFrames(req.display_ids))
        IN /\ \A i \in 1..Len(windows) :
                LET f == screens[windows[i].target_screen]
                    c == windows[i].crop_info
                IN /\ c.set
                   /\ FracEq(c.x, <<f.x - B.min_x, B.max_x - B.min_x>>)
                   /\ FracEq(c.y, <<f.y - B.min_y, B.max_y - B.min_y>>)
                   /\ FracEq(c.w, <<f.w, B.max_x - B.min_x>>)
                   /\ FracEq(c.h, <<f.h, B.max_y - B.min_y>>)
           /\ (screens = <<StdLeft, StdRight>> /\ req.display_ids = <<0, 1>>) =>
                /\ result.canvas = {[min_x |-> 0, min_y |-> 0, max_x |-> 3840, max_y |-> 1080]}
                /\ Len(windows) = 2
                /\ FracEq(windows[1].crop_info.x, <<0, 1>>)
                /\ FracEq(windows[1].crop_info.y, <<0, 1>>)
                /\ FracEq(windows[1].crop_info.w, <<1, 2>>)
                /\ FracEq(windows[1].crop_info.h, <<1, 1>>)
                /\ FracEq(windows[2].crop_info.x, <<1, 2>>)
                /\ FracEq(windows[2].crop_info.y, <<0, 1>>)
                /\ FracEq(windows[2].crop_info.w, <<1, 2>>)
                /\ FracEq(windows[2].crop_info.h, <<1, 1>>)

\* The two 1920x1080 screens side by side were spanned.
C18_SideBySide ==
    /\ op = "span"
    /\ screens = <<StdLeft, StdRight>>
    /\ req.display_ids = <<0, 1>>
    /\ result.ret = "true"
    /\ Len(windows) = 2

\* x, y, w, h of a crop rectangle lie in [0,1], with x+w <= 1 and y+h <= 1.
CropInUnitSquare(c) ==
    /\ FracLe(<<0, 1>>, c.x) /\ FracLe(c.x, <<1, 1>>)
    /\ FracLe(<<0, 1>>, c.y) /\ FracLe(c.y, <<1, 1>>)
    /\ FracLe(<<0, 1>>, c.w) /\ FracLe(c.w, <<1, 1>>)
    /\ FracLe(<<0, 1>>, c.h) /\ FracLe(c.h, <<1, 1>>)
    /\ FracLe(<<c.x[1] + c.w[1], c.x[2]>>, <<1, 1>>)
    /\ FracLe(<<c.y[1] + c.h[1], c.y[2]>>, <<1, 1>>)

\* C19 as stated: every crop rectangle of a spanning build lies in the unit
\* square and has positive width and height.
C19_CropPositive ==
    (op = "span" /\ result.ret = "true") =>
        \A i \in 1..Len(windows) :
            /\ CropInUnitSquare(windows[i].crop_info)
            /\ windows[i].crop_info.w[1] > 0
            /\ windows[i].crop_info.h[1] > 0

\* C19, with the positivity where it holds: every crop rectangle of a spanning
\* build lies in the unit square (x, y, w, h in [0,1], x+w <= 1, y+h <= 1), and
\* its w is positive exactly when its screen has a width, its h exactly when
\* its screen has a height.
C19_CropInUnitSquare ==
    (op = "span" /\ result.ret = "true") =>
        \A i \in 1..Len(windows) :
            /\ CropInUnitSquare(windows[i].crop_info)
            /\ windows[i].crop_info.w[1] > 0 <=> screens[windows[i].target_screen].w > 0
            /\ windows[i].crop_info.h[1] > 0 <=> screens[windows[i].target_screen].h > 0

\* A screen without width was spanned together with a screen that has one.
C19_ZeroWidthNextToPositive ==
    /\ op = "span"
    /\ result.ret = "true"
    /\ Len(windows) = 2
    /\ screens[windows[1].target_screen].w = 0
    /\ screens[windows[2].target_screen].w > 0
    /\ windows[1].crop_info.w[1] = 0

\* C20: on a canvas without width or without height the build does not raise
\* and every surface gets the full-frame crop rectangle (0,0,1,1).
C20_DegenerateCanvasFullFrame ==
    (/\ op = "span"
     /\ \E c \in result.canvas : c.max_x - c.min_x = 0 \/ c.max_y - c.min_y = 0) =>
        /\ result.ret # "raised"
        /\ \A i \in 1..Len(windows) :
              /\ windows[i].crop_info.x[1] = 0
              /\ windows[i].crop_info.y[1] = 0
              /\ windows[i].crop_info.w[1] = windows[i].crop_info.w[2]
              /\ windows[i].crop_info.h[1] = windows[i].crop_info.h[2]

\* C21: when no display of a spanning request resolves to a screen, the build
\* reports failure, computes no canvas and no crop rectangle, attempts no
\* create and leaves the session empty.
C21_EmptyInputFails ==
    (op = "span" /\ SpannedFrames(req.display_ids) = {}) =>
        /\ result.ret = "false"
        /\ result.canvas = {}
        /\ windows = <<>>
        /\ failed = <<>>
        /\ \A j \in 1..Len(trace) : trace[j].ev # "alloc"

\* A spanning request all of whose displays were out of range has returned.
C21_NoDisplayResolved ==
    /\ op = "span"
    /\ \A i \in 1..Len(req.display_ids) : req.display_ids[i] >= Len(screens)
    /\ req.display_ids[1] # req.display_ids[2]
    /\ result.ret = "false"

\* The video the k-th create of a request is for.
VideoFor(video_paths, k) ==
    IF Cardinality(Range(video_paths)) = 1 /\ Len(video_paths) > 1
    THEN video_paths[1] ELSE video_paths[k]

\* C22: a create for a video that is not on disk returns no surface: no entry
\* of the session plays a missing video, and every such create leaves an
\* instance without window, player, layer or looper, for which nothing was
\* allocated, shown or played.
C22_MissingVideoNoSurface ==
    op = "start_wallpaper" =>
        /\ \A i \in 1..Len(windows) : windows[i].player.video \in files
        /\ Len(failed) = Cardinality({k \in Attempted(req.video_paths, req.display_ids) :
                                         VideoFor(req.video_paths, k) \notin files})
        /\ \A i \in 1..Len(failed) :
              /\ failed[i].window = "None"
              /\ failed[i].player = NoPlayer
              /\ ~failed[i].player_layer
              /\ ~failed[i].looper
              /\ \A j \in 1..Len(trace) :
                    trace[j].id = failed[i].id => trace[j].ev = "create_failed"

\* The manager was asked for a missing video and for one that is on disk.
C22_OneMissingOneCreated ==
    /\ op = "start_wallpaper"
    /\ req.video_paths = <<PathB, PathA>>
    /\ Len(failed) = 1
    /\ Len(windows) = 1
    /\ windows[1].player.state = "playing"

\* C23: with fewer than five arguments the helper process prints the usage
\* and exits with a nonzero status; with five arguments and a video that is
\* not on disk it exits with a nonzero status after an error is printed (the
\* video error, or the traceback of a volume or display argument that does not
\* parse, which main() reads first); in both cases no window and no player
\* were created.
C23_DaemonExitsEarly ==
    (/\ op = "daemon_main"
     /\ Len(req.argv) < 5 \/ req.argv[1] \notin files) =>
        /\ daemon.status = "exited"
        /\ daemon.code # 0
        /\ daemon.window = "None"
        /\ daemon.player = "None"
        /\ \A j \in 1..Len(trace) : trace[j].ev \notin {"window", "player"}
        /\ Len(req.argv) < 5 => trace = <<Ev("print", "usage")>>
        /\ (Len(req.argv) >= 5 /\ float(req.argv[3]).ok /\ displayArg(req.argv[5]).ok) =>
              trace = <<Ev("print", "video_not_found")>>
        /\ Len(req.argv) >= 5 => trace[Len(trace)].ev \in {"print", "traceback"}

\* The helper process was started with all its arguments for a missing video.
C23_MissingVideoExit ==
    /\ op = "daemon_main"
    /\ Len(req.argv) = 5
    /\ req.argv[1] = PathB
    /\ req.argv[3] = "0.5"
    /\ req.argv[5] = "1"
    /\ daemon.status = "exited"
    /\ trace = <<Ev("print", "video_not_found")>>

\* C24: a display index beyond the enumeration is not a failure: the helper
\* process, and the individual mode of the manager, still create the surface
\* for that request, on the main screen.
C24_OutOfRangeFallsBackToMain ==
    /\ (/\ op = "daemon_main"
        /\ Len(req.argv) = 5
        /\ req.argv[1] \in files
        /\ float(req.argv[3]).ok
        /\ displayArg(req.argv[5]).ok
        /\ displayArg(req.argv[5]).v >= Len(screens)
        /\ req.window_ok) =>
          /\ daemon.status = "running"
          /\ daemon.window = "shown"
          /\ daemon.target_screen = req.mainScreen
    /\ (/\ op = "start_wallpaper"
        /\ ~(Cardinality(Range(req.video_paths)) = 1 /\ Len(req.video_paths) > 1)) =>
          \A k \in 1..Len(req.display_ids) :
              (req.display_ids[k] >= Len(screens) /\ req.video_paths[k] \in files) =>
                  \E i \in 1..Len(windows) :
                      /\ windows[i].id = <<gen, k>>
                      /\ windows[i].window = "shown"
                      /\ windows[i].target_screen = req.main

\* The video gravity a scale mode stands for: fill, fit and stretch each their
\* own, stretch for every other value.
ExpectedGravity(m) ==
    CASE m = "fill" -> "ResizeAspectFill"
      [] m = "fit"  -> "ResizeAspect"
      [] OTHER      -> "Resize"

\* C25: the content of every surface is scaled the way the request asks for
\* (fill, fit or stretch, and stretch for a value that is none of them), in the
\* session of the manager and in the helper process.
C25_ScaleModeApplied ==
    /\ op = "start_wallpaper" =>
          \A i \in 1..Len(windows) :
              windows[i].layer_gravity = ExpectedGravity(req.scale_mode)
    /\ (op = "daemon_main" /\ daemon.status = "running") =>
          daemon.videoGravity = ExpectedGravity(req.argv[4])

\* C26: in the helper process an end-of-media event that comes before cleanup
\* has run is answered by a seek to time zero and a play, after which the
\* player plays from the start; the window observes the event from the setup
\* of its player on and stops observing only when cleanup runs or the process
\* ends; an event that comes after cleanup restarts nothing.
C26_LoopUntilCleanup ==
    [][/\ (pc = "idle" /\ op' = "end_of_media" /\ ~daemon.cleaned) =>
             /\ trace' = <<Ev("player", "seek_zero"), Ev("player", "play")>>
             /\ daemon'.position = "zero"
             /\ daemon'.player = "playing"
       /\ (pc = "idle" /\ op' = "end_of_media" /\ daemon.cleaned) =>
             /\ trace' = <<>>
             /\ daemon'.player = "paused"
             /\ daemon'.position = "end"
       /\ daemon'.status = "running" => (daemon'.observer <=> ~daemon'.cleaned)
       /\ (daemon.observer /\ ~daemon'.observer) =>
             op' \in {"daemon_cleanup", "daemon_signal"}]_vars

\* The video of a running helper process reached its end and was restarted.
C26_Looped ==
    /\ op = "end_of_media"
    /\ ~req.cleaned
    /\ daemon.status = "running"
    /\ daemon.player = "playing"
    /\ trace = <<Ev("player", "seek_zero"), Ev("player", "play")>>

\* A thread is between its first read of the registry and its clear().
InSection(c, cx) == cx[c].at \in {"loop", "clear"}

\* C27: the registry is a critical section: no two threads are reading or
\* clearing it at the same time, and a thread clears only pids it has sent the
\* termination signal to.
C27_RegistryExclusive ==
    [][/\ \A c, d \in Contexts : (InSection(c, ctx') /\ InSection(d, ctx')) => c = d
       /\ \A c \in Contexts :
             (ctx[c].at = "clear" /\ ctx'[c].at = "out") =>
                 Range(daemon_pids) \subseteq ctx[c].sent]_vars

\* C28: every entry of the session has an open window and a live player, and
\* every instance that was cleaned up has neither: no entry, live or cleaned
\* up, has one without the other.
C28_WindowAndPlayerTogether ==
    /\ \A i \in DOMAIN windows :
          windows[i].window # "None" /\ windows[i].player.state # "None"
    /\ \A i \in DOMAIN retired :
          retired[i].window = "None" /\ retired[i].player = NoPlayer

\* A start has cleaned a session up and built a new one, with one create that
\* failed on the way.
C28_ReplacedWithFailure ==
    /\ op = "start"
    /\ retired # <<>>
    /\ windows # <<>>
    /\ failed # <<>>

\* C29: the session holds at most one window and player per display, also when
\* the request names a display twice or names several displays out of range.
C29_OnePairPerDisplay ==
    \A i, j \in DOMAIN windows :
        windows[i].target_screen = windows[j].target_screen => i = j

\* The frame of the player layer of a window on screen f of canvas B is the
\* whole canvas, shifted so that the screen's part of it is in the window.
LayerCoversCanvas(L, f, B) ==
    /\ FracEq(L.w, <<B.max_x - B.min_x, 1>>)
    /\ FracEq(L.h, <<B.max_y - B.min_y, 1>>)
    /\ FracEq(L.x, <<-(f.x - B.min_x), 1>>)
    /\ FracEq(L.y, <<-(f.y - B.min_y), 1>>)

\* C30 as stated: every window of a spanning build has a player layer of the
\* size of the canvas, offset by minus its display's origin relative to the
\* canvas minimum, and clips the layer to its bounds.
C30_LayerIsCanvas ==
    (op = "span" /\ result.ret = "true") =>
        \A i \in 1..Len(windows) :
            /\ windows[i].masks_to_bounds
            /\ LayerCoversCanvas(windows[i].layer_frame, screens[windows[i].target_screen],
                                 BoundingBox(SpannedFrames(req.display_ids)))

\* C30, amended: every window of a spanning build clips its layer; along an
\* axis on which its display has a positive extent the layer has the canvas's
\* extent and is offset by minus the display's origin relative to the canvas
\* minimum; along an axis on which the display has extent 0 the layer has
\* extent 0 and offset 0.
C30_LayerIsCanvasWherePositive ==
    (op = "span" /\ result.ret = "true") =>
        LET B == BoundingBox(SpannedFrames(req.display_ids))
        IN \A i \in 1..Len(windows) :
              LET f == screens[windows[i].target_screen]
                  L == windows[i].layer_frame
              IN /\ windows[i].masks_to_bounds
                 /\ IF f.w > 0
                    THEN /\ FracEq(L.w, <<B.max_x - B.min_x, 1>>)
                         /\ FracEq(L.x, <<-(f.x - B.min_x), 1>>)
                    ELSE FracEq(L.w, <<0, 1>>) /\ FracEq(L.x, <<0, 1>>)
                 /\ IF f.h > 0
                    THEN /\ FracEq(L.h, <<B.max_y - B.min_y, 1>>)
                         /\ FracEq(L.y, <<-(f.y - B.min_y), 1>>)
                    ELSE FracEq(L.h, <<0, 1>>) /\ FracEq(L.y, <<0, 1>>)

\* The right one of the two 1920x1080 screens shows the right half of a layer
\* 3840 wide, shifted 1920 to the left.
C30_RightHalfShifted ==
    /\ op = "span"
    /\ screens = <<StdLeft, StdRight>>
    /\ req.display_ids = <<0, 1>>
    /\ Len(windows) = 2
    /\ windows[2].layer_frame.w = <<3840, 1>>
    /\ windows[2].layer_frame.x = <<-1920, 1>>
    /\ windows[2].masks_to_bounds

\* C31: the cache is keyed by the base name alone: when the cache holds an
\* image with the base name of the requested video, whatever directory the
\* video is in, get_or_generate returns that image and generates nothing.
C31_SameBaseNameHits ==
    [][(pc = "idle" /\ op' = "frame" /\ \E e \in cache : e.base = req'.video_path.base) =>
          /\ result' \in cache
          /\ result'.base = req'.video_path.base
          /\ cache' = cache
          /\ \A j \in 1..Len(trace') : trace'[j].ev # "generate"]_vars

\* /w/a.mp4, which is not on disk, was given the image cached for /v/a.mp4.
C31_OtherDirectoryHit ==
    /\ op = "frame"
    /\ req.video_path = PathA2
    /\ PathA2 \notin files
    /\ PathA \in files
    /\ trace = <<Ev("cached", PathA2)>>
    /\ result = [dir |-> CacheDir, base |-> "a", ext |-> "png"]

\* C32: the helper process takes its fifth argument as an index into the
\* enumeration of screens: started with an index in range it has its window
\* on the screen at that index, the screen the manager takes for that index.
C32_DaemonIndexesEnumeration ==
    (/\ op = "daemon_main"
     /\ daemon.status = "running"
     /\ displayArg(req.argv[5]).v < Len(screens)) =>
        /\ daemon.target_screen = displayArg(req.argv[5]).v + 1
        /\ daemon.target_screen =
              individualAttempts(<<req.argv[1]>>, <<displayArg(req.argv[5]).v>>,
                                 screens, req.mainScreen)[1].screen

\* C33: a start rejected for lists of different lengths has no effect: the
\* session is the one it found, nothing of it was cleaned up, no still frame
\* was looked up or generated and the manager was not called.
C33_RejectedStartChangesNothing ==
    [][(pc = "idle" /\ op' = "start" /\ Len(req'.video_paths) # Len(req'.display_ids)) =>
          /\ windows' = windows
          /\ gen' = gen
          /\ cache' = cache
          /\ retired' = <<>>
          /\ failed' = <<>>
          /\ trace' = <<>>]_vars

\* A start with one video on disk, not yet in the cache, and no display was
\* rejected while a session was up.
C33_RejectedOverSession ==
    /\ op = "start"
    /\ result = "mismatch"
    /\ Len(req.video_paths) = 1
    /\ req.display_ids = <<>>
    /\ req.video_paths[1] \in files
    /\ StaticPath(req.video_paths[1]) \notin cache
    /\ windows # <<>>

\* The videos a still frame was looked up or generated for, in order.
FramesRequested(t) ==
    LET fe == SelectSeq(t, LAMBDA e : e.ev \in {"cached", "generate"})
    IN [j \in 1..Len(fe) |-> fe[j].id]

\* The position of the first path of the list that is not on disk.
FirstMissing(video_paths) ==
    CHOOSE i \in 1..Len(video_paths) :
        /\ video_paths[i] \notin files
        /\ \A j \in 1..(i - 1) : video_paths[j] \in files

\* C34: a start with lists of equal length that comes to a video that is not
\* on disk returns without creating a surface; the session it found has been
\* torn down, so the session is empty; still frames were requested for the
\* paths before the missing one and for no other.
C34_MissingVideoAborts ==
    [][(/\ pc = "idle"
        /\ op' = "start"
        /\ Len(req'.video_paths) = Len(req'.display_ids)
        /\ \E i \in 1..Len(req'.video_paths) : req'.video_paths[i] \notin files) =>
          /\ result' = "video_not_found"
          /\ windows' = <<>>
          /\ failed' = <<>>
          /\ \A j \in 1..Len(trace') : trace'[j].ev # "alloc"
          /\ Len(retired') = Len(windows)
          /\ \A j \in 1..Len(retired') :
                retired'[j].window = "None" /\ retired'[j].player = NoPlayer
          /\ FramesRequested(trace') =
                SubSeq(req'.video_paths, 1, FirstMissing(req'.video_paths) - 1)]_vars

\* A start whose second video is missing tore a session down, asked for the
\* still frame of the first video and stopped.
C34_AbortedAtSecond ==
    /\ op = "start"
    /\ result = "video_not_found"
    /\ Len(req.video_paths) = 2
    /\ req.video_paths[1] \in files
    /\ req.video_paths[2] \notin files
    /\ retired # <<>>
    /\ windows = <<>>
    /\ FramesRequested(trace) = <<req.video_paths[1]>>

\* C35: a create that failed leaves nothing behind: the instance whose setup
\* returned failure has no window on screen and no player, and it is not an
\* entry of the session.
C35_FailedCreateLeavesNothing ==
    \A i \in DOMAIN failed :
        /\ failed[i].window # "shown"
        /\ failed[i].player.state = "None"
        /\ \A j \in DOMAIN windows : windows[j].id # failed[i].id

\* The screens of the displays of a request that are in range, in order.
InRange(display_ids) ==
    LET inr == SelectSeq(display_ids, LAMBDA d : d < Len(screens))
    IN [k \in 1..Len(inr) |-> inr[k] + 1]

\* C36: a spanning request with displays out of range is answered as the
\* request that lists its in-range displays alone: the canvas is the canvas
\* of those, the surfaces are one for each of those, in order, and each has
\* the crop rectangle of its screen on that canvas.
C36_OutOfRangeSkipped ==
    op = "span" =>
        /\ result.canvas = IF InRange(req.display_ids) = <<>> THEN {}
                           ELSE {canvasOf(InRange(req.display_ids), screens)}
        /\ InRange(req.display_ids) = <<>> => (result.ret = "false" /\ windows = <<>>)
        /\ result.ret = "true" =>
              /\ Len(windows) = Len(InRange(req.display_ids))
              /\ \A k \in 1..Len(windows) :
                    /\ windows[k].target_screen = InRange(req.display_ids)[k]
                    /\ windows[k].crop_info =
                          cropRect(screens[InRange(req.display_ids)[k]],
                                   canvasOf(InRange(req.display_ids), screens))

\* Of the displays 2 and 0 on a machine with two screens only the first
\* screen got a surface, which shows the whole canvas.
C36_OneOfTwoSkipped ==
    /\ op = "span"
    /\ req.display_ids = <<2, 0>>
    /\ Len(screens) = 2
    /\ screens[1] # screens[2]
    /\ result.ret = "true"
    /\ Len(windows) = 1
    /\ windows[1].target_screen = 1
    /\ result.canvas = {frameCanvas(screens[1])}

====
